---- MODULE Spec2Model ----
(***************************************************************************)
(* Model of src/src/lib.rs: the CautiousBackoff handle, its wait future,   *)
(* the Permit, and the backoff coordinator task.                           *)
(*                                                                         *)
(* Durations are naturals in 0..MaxDuration (MaxDuration plays the role of *)
(* Duration::MAX).  `Duration *= 2` panics when the product is not         *)
(* representable (core::time::Duration's Mul is checked_mul + expect).     *)
(* `unwrap_unchecked` on an Err/None is undefined behaviour; it is         *)
(* modelled as a nondeterministic choice between the outcomes a build can  *)
(* produce (see Recv and UBOutcomes).                                      *)
(***************************************************************************)
EXTENDS Naturals, Sequences, FiniteSets

\* ---------------------------------------------------------------- bounds
MaxDuration == 8
MaxPacing == 1
NumCallers == 2
MaxHandles == 2
MaxRequests == 3

Durations == 0..MaxDuration
Callers == 1..NumCallers

VARIABLES
    initial,                 \* backoff(.., initial, ..)
    cap,                     \* backoff(.., cap, ..)
    time_between_permits,    \* backoff(.., time_between_permits)
    current_retry_interval,  \* let mut current_retry_interval
    pc,                      \* where the backoff task is
    delay,                   \* argument of the sleep() the task is in (0 when not sleeping)
    recv,                    \* the mpsc queue: requests (reply senders) in arrival order
    handles,                 \* number of live CautiousBackoff values (mpsc senders)
    nextRequest,             \* number of the next oneshot reply channel wait creates
    callerState,             \* per caller: "idle", "waiting", "holding", "undefined"
    callerRequest,           \* per caller: the request whose rx its wait future awaits (0: none)
    outcome,                 \* the outcome oneshot: "none", "Success", "Fail", "dropped"
    permit,                  \* request the outcome channel awaited by the task belongs to
    lastGranted,             \* history: last request a permit was delivered for
    survivors,               \* history: callers whose pending wait (or the permit it got) saw a handle dropped
    reports                  \* history: what each outcome_rx.await yielded ("Success", "Fail", "Abandon")

vars == <<initial, cap, time_between_permits, current_retry_interval, pc, delay,
          recv, handles, nextRequest, callerState, callerRequest,
          outcome, permit, lastGranted, survivors, reports>>

config == <<initial, cap, time_between_permits>>
callerVars == <<callerState, callerRequest>>
taskVars == <<current_retry_interval, pc, delay, permit, lastGranted, reports>>

InQueue(r) == \E i \in 1..Len(recv) : recv[i] = r

\* -------------------------------------------------- CautiousBackoff::new
\* new() creates the channel, spawns backoff(recv, initial, cap,
\* time_between_permits) and returns the first handle.  No validation.
Init ==
    /\ initial \in Durations
    /\ cap \in Durations
    /\ time_between_permits \in {0, MaxPacing}
    /\ current_retry_interval = initial
    /\ pc = "idle"
    /\ delay = 0
    /\ recv = <<>>
    /\ handles = 1
    /\ nextRequest = 1
    /\ callerState = [c \in Callers |-> "idle"]
    /\ callerRequest = [c \in Callers |-> 0]
    /\ outcome = "none"
    /\ permit = 0
    /\ lastGranted = 0
    /\ survivors = {}
    /\ reports = <<>>

\* The process runs unless an abort ended it.
Running == pc # "aborted"

\* The receiving half of the queue exists while the task has neither returned
\* nor panicked.
ReceiverAlive == pc \notin {"terminated", "panicked"}

\* ------------------------------------------------- #[derive(Clone)] / drop
CloneHandle ==
    /\ Running
    /\ handles >= 1
    /\ handles < MaxHandles
    /\ handles' = handles + 1
    /\ UNCHANGED <<config, taskVars, recv, nextRequest, callerVars, outcome, survivors>>

\* A pending wait future borrows its handle (&self), so the handles that can be
\* dropped are those no pending wait was called on: all but one of them while a
\* wait is pending, any of them otherwise.
WaitPending == \E c \in Callers : callerState[c] = "waiting"

DropHandle ==
    /\ Running
    /\ handles >= 1
    /\ handles > 1 \/ ~WaitPending
    /\ handles' = handles - 1
    /\ survivors' = survivors \cup {c \in Callers : callerState[c] = "waiting"}
    /\ UNCHANGED <<config, taskVars, recv, nextRequest, callerVars, outcome>>

\* --------------------------------------------------- CautiousBackoff::wait
\* self.0.send(tx) succeeds while the receiver exists; the future then awaits rx.
\* If the receiver is gone, unwrap_unchecked is undefined behaviour.
Wait(c) ==
    /\ Running
    /\ callerState[c] = "idle"
    /\ handles >= 1
    /\ nextRequest <= MaxRequests
    /\ nextRequest' = nextRequest + 1
    /\ IF ReceiverAlive
          THEN /\ recv' = Append(recv, nextRequest)
               /\ callerState' = [callerState EXCEPT ![c] = "waiting"]
               /\ callerRequest' = [callerRequest EXCEPT ![c] = nextRequest]
               /\ pc' = pc
          ELSE /\ recv' = recv
               /\ callerRequest' = callerRequest
               /\ \/ /\ pc' = "aborted"
                     /\ callerState' = callerState
                  \/ /\ pc' = pc
                     /\ callerState' = [callerState EXCEPT ![c] = "undefined"]
    /\ UNCHANGED <<config, current_retry_interval, delay, handles, outcome,
                   permit, lastGranted, survivors, reports>>

\* The wait future is dropped before a permit was delivered: rx is dropped,
\* the request (tx) stays in the queue.
CancelWait(c) ==
    /\ Running
    /\ callerState[c] = "waiting"
    /\ callerState' = [callerState EXCEPT ![c] = "idle"]
    /\ callerRequest' = [callerRequest EXCEPT ![c] = 0]
    /\ survivors' = survivors \ {c}
    /\ UNCHANGED <<config, taskVars, recv, handles, nextRequest, outcome>>

\* rx.await yields Err when the reply sender was dropped unsent (the queue was
\* dropped with the request in it); unwrap_unchecked on it is undefined behaviour.
WaitRecvError(c) ==
    /\ Running
    /\ callerState[c] = "waiting"
    /\ ~ReceiverAlive
    /\ ~InQueue(callerRequest[c])
    /\ callerRequest' = [callerRequest EXCEPT ![c] = 0]
    /\ \/ /\ pc' = "aborted"
          /\ callerState' = callerState
       \/ /\ pc' = pc
          /\ callerState' = [callerState EXCEPT ![c] = "undefined"]
    /\ survivors' = survivors \ {c}
    /\ UNCHANGED <<config, current_retry_interval, delay, recv, handles,
                   nextRequest, outcome, permit, lastGranted, reports>>

\* ------------------------------------------------------------------ Permit
\* Permit::success / Permit::fail: send the outcome, consuming the permit.
Report(c, o) ==
    /\ Running
    /\ callerState[c] = "holding"
    /\ callerState' = [callerState EXCEPT ![c] = "idle"]
    /\ callerRequest' = [callerRequest EXCEPT ![c] = 0]
    /\ outcome' = o
    /\ survivors' = survivors \ {c}
    /\ UNCHANGED <<config, taskVars, recv, handles, nextRequest>>

success(c) == Report(c, "Success")

fail(c) == Report(c, "Fail")

\* The permit is dropped without success or fail: the outcome sender is dropped.
DropPermit(c) == Report(c, "dropped")

\* ----------------------------------------------------------------- backoff
\* Mutant of NextRequest: the newest queued request is served first.
NextRequestNewest(q) == q[Len(q)]

\* recv.recv().await yields the oldest queued request.
NextRequest(q) == Head(q)

\* Mutant of AtRecv: the task takes the next request without awaiting outcome_rx.
AtRecvNoAwait == pc \in {"idle", "granted"}

\* Mutant of AtRecv: the task takes the next request while it sleeps.
AtRecvDuringSleep == pc \in {"idle", "sleeping"}

\* The task is at recv.recv().await.
AtRecv == pc = "idle"

\* Mutant of Receiver: the permit goes to every pending wait.
ReceiverAny(r) == {c \in Callers : callerState[c] = "waiting"}

\* The caller whose wait future still awaits request r (its rx is alive).
Receiver(r) == {c \in Callers : callerState[c] = "waiting" /\ callerRequest[c] = r}

\* tx.send(Permit(outcome_tx)).unwrap_unchecked() with the receiver gone is
\* undefined behaviour.  Outcomes: the process aborts (the unsafe-precondition
\* check of a debug build); the returned permit is never dropped, so
\* outcome_rx.await never completes ("none"); the permit is dropped with the
\* channel, so outcome_rx.await yields Err ("dropped").
UBOutcomes == {"abort", "none", "dropped"}

Recv ==
    /\ Running
    /\ AtRecv
    /\ recv # <<>>
    /\ LET r == NextRequest(recv) IN
        /\ recv' = SelectSeq(recv, LAMBDA x : x # r)
        /\ permit' = r
        /\ IF Receiver(r) # {}
              THEN /\ callerState' = [c \in Callers |->
                          IF c \in Receiver(r) THEN "holding" ELSE callerState[c]]
                   /\ pc' = "granted"
                   /\ outcome' = "none"
                   /\ lastGranted' = r
              ELSE /\ callerState' = callerState
                   /\ lastGranted' = lastGranted
                   /\ \E u \in UBOutcomes :
                        IF u = "abort"
                           THEN pc' = "aborted" /\ outcome' = outcome
                           ELSE pc' = "granted" /\ outcome' = u
    /\ UNCHANGED <<config, current_retry_interval, delay, handles, nextRequest,
                   callerRequest, survivors, reports>>

\* recv.recv().await yields None: the queue is empty and every sender is dropped.
Terminate ==
    /\ Running
    /\ AtRecv
    /\ recv = <<>>
    /\ handles = 0
    /\ pc' = "terminated"
    /\ UNCHANGED <<config, current_retry_interval, delay, recv, handles,
                   nextRequest, callerVars, outcome, permit, lastGranted, survivors,
                   reports>>

\* current_retry_interval *= 2 is representable (Duration's Mul panics otherwise).
Representable(cur) == cur * 2 <= MaxDuration

\* Mutant of IsReported: Err (the permit was dropped) is taken for a report.
IsReportedOrErr(o) == o \in {"Success", "Fail", "dropped"}

\* if let Ok(outcome) = outcome_rx.await: a value was sent.
IsReported(o) == o \in {"Success", "Fail"}

\* Mutant of IsFail: a dropped permit is handled like a failure.
IsFailOrDropped(o) == o \in {"Fail", "dropped"}

\* match outcome { Outcome::Fail => ..
IsFail(o) == o = "Fail"

\* Mutant of FailInterval: the doubling is missing.
FailIntervalNoDouble(cur, c) == IF cur > c THEN c ELSE cur

\* Mutant of FailInterval: the doubling saturates at the largest duration and
\* the clamp to cap is missing.
FailIntervalSaturating(cur, c) ==
    IF cur * 2 > MaxDuration THEN MaxDuration ELSE cur * 2

\* Mutant of FailInterval: the clamp is missing.
FailIntervalNoClamp(cur, c) == cur * 2

\* Outcome::Fail: double, then clamp to cap.
FailInterval(cur, c) == IF cur * 2 > c THEN c ELSE cur * 2

\* Mutant of SuccessInterval: the interval is not reset.
SuccessIntervalNoReset(cur, init) == cur

\* Outcome::Success: reset.
SuccessInterval(cur, init) == init

\* Mutant of SuccessDelay: the task sleeps for the backoff interval.
SuccessDelayBackoff(cur, tbp) == cur

\* Outcome::Success: sleep(time_between_permits).
SuccessDelay(cur, tbp) == tbp

\* The rest of the loop body, from the completion of outcome_rx.await.
Outcome ==
    /\ Running
    /\ pc = "granted"
    /\ outcome # "none"
    /\ outcome' = "none"
    /\ permit' = 0
    /\ IF IsFail(outcome)
          THEN IF Representable(current_retry_interval)
                  THEN /\ current_retry_interval' = FailInterval(current_retry_interval, cap)
                       /\ delay' = current_retry_interval'
                       /\ pc' = "sleeping"
                       /\ recv' = recv
                       /\ reports' = Append(reports, "Fail")
                  ELSE \* the multiplication panics: the task ends, the queue is dropped
                       /\ current_retry_interval' = current_retry_interval
                       /\ delay' = delay
                       /\ pc' = "panicked"
                       /\ recv' = <<>>
                       /\ reports' = reports
          ELSE IF IsReported(outcome)
                  THEN /\ current_retry_interval' = SuccessInterval(current_retry_interval, initial)
                       /\ delay' = SuccessDelay(current_retry_interval, time_between_permits)
                       /\ pc' = "sleeping"
                       /\ recv' = recv
                       /\ reports' = Append(reports, "Success")
                  ELSE \* Err: the permit was dropped; straight back to the top of the loop
                       /\ current_retry_interval' = current_retry_interval
                       /\ delay' = delay
                       /\ pc' = "idle"
                       /\ recv' = recv
                       /\ reports' = Append(reports, "Abandon")
    /\ UNCHANGED <<config, handles, nextRequest, callerVars, lastGranted, survivors>>

\* sleep(..).await completes.
Wake ==
    /\ Running
    /\ pc = "sleeping"
    /\ pc' = "idle"
    /\ delay' = 0
    /\ UNCHANGED <<config, current_retry_interval, recv, handles, nextRequest,
                   callerVars, outcome, permit, lastGranted, survivors, reports>>

Next ==
    \/ CloneHandle
    \/ DropHandle
    \/ \E c \in Callers : Wait(c)
    \/ \E c \in Callers : CancelWait(c)
    \/ \E c \in Callers : WaitRecvError(c)
    \/ \E c \in Callers : success(c)
    \/ \E c \in Callers : fail(c)
    \/ \E c \in Callers : DropPermit(c)
    \/ Recv
    \/ Terminate
    \/ Outcome
    \/ Wake

Spec == Init /\ [][Next]_vars

\* The task's steps are taken when enabled (the runtime polls a woken task), every
\* sleep elapses, and every holder of a permit resolves it.
Resolve(c) == success(c) \/ fail(c) \/ DropPermit(c)

FairSpec ==
    /\ Spec
    /\ WF_vars(Recv)
    /\ WF_vars(Outcome)
    /\ WF_vars(Wake)
    /\ WF_vars(Terminate)
    /\ \A c \in Callers : WF_vars(Resolve(c))

\* ------------------------------------------------------------ properties
Holders == {c \in Callers : callerState[c] = "holding"}

\* Callers whose wait future is pending on a request that is still queued.
Queued == {c \in Callers : callerState[c] = "waiting" /\ InQueue(callerRequest[c])}

\* The Success/Fail reports handled so far, abandonments left out.
Reported == SelectSeq(reports, LAMBDA x : x # "Abandon")

Last(s) == s[Len(s)]

Min(a, b) == IF a <= b THEN a ELSE b

RECURSIVE TrailingFails(_)
TrailingFails(s) ==
    IF s = <<>> \/ Last(s) # "Fail" THEN 0
    ELSE 1 + TrailingFails(SubSeq(s, 1, Len(s) - 1))

RECURSIVE Pow2(_)
Pow2(k) == IF k = 0 THEN 1 ELSE 2 * Pow2(k - 1)

\* The task completes outcome_rx.await with outcome o in this step.
Handles(o) == pc = "granted" /\ outcome = o /\ pc' # "granted"

\* C1: at most one permit is unresolved (held by a caller), and whenever the task
\* is at recv, able to deliver a permit, no delivered permit is outstanding.
Serialization ==
    /\ Cardinality(Holders) <= 1
    /\ pc = "idle" => Holders = {}

\* C1 witness: a permit is outstanding while another caller's request is queued.
SerializationWitness ==
    /\ Cardinality(Holders) = 1
    /\ Queued # {}
    /\ handles > 1

\* C2: requests are numbered in the order they are enqueued; no request still
\* pending in the queue is older than the last request a permit was delivered for.
FifoFairness ==
    \A c \in Queued : callerRequest[c] > lastGranted

\* C2 witness: two requests were pending together, the older one has its permit
\* and the younger one is still queued.
FifoFairnessWitness ==
    \E a \in Holders, b \in Queued :
        /\ lastGranted = callerRequest[a]
        /\ callerRequest[b] = callerRequest[a] + 1

\* C3 (as stated): the k-th consecutive Fail report is followed by a delay of
\* min(initial * 2^k, cap).
BackoffGrowth ==
    [][Handles("Fail") =>
          /\ pc' = "sleeping"
          /\ delay' = Min(initial * Pow2(TrailingFails(Reported) + 1), cap)]_vars

\* What does hold of the Fail branch: when the doubling is representable the delay
\* is min(initial * 2^k, cap); when it is not, the task panics without a delay.
BackoffGrowthOrPanic ==
    [][Handles("Fail") =>
          IF Representable(current_retry_interval)
             THEN /\ pc' = "sleeping"
                  /\ delay' = Min(initial * Pow2(TrailingFails(Reported) + 1), cap)
             ELSE pc' = "panicked"]_vars

\* The last reports are Fail, Success, Fail and the task sleeps after the last one.
FailSuccessFail ==
    /\ pc = "sleeping"
    /\ Len(Reported) >= 3
    /\ SubSeq(Reported, Len(Reported) - 2, Len(Reported)) = <<"Fail", "Success", "Fail">>

\* C4 (as stated): the Fail after a Success that followed failures delays for
\* exactly initial * 2.
ResetOnSuccessDoubled ==
    FailSuccessFail => delay = initial * 2

\* C4 (amended): a Success resets current_retry_interval to initial, and the delay
\* applied by the Fail that follows it is min(initial * 2, cap).
ResetOnSuccess ==
    /\ (Reported # <<>> /\ Last(Reported) = "Success") => current_retry_interval = initial
    /\ ( /\ pc = "sleeping"
         /\ Len(Reported) >= 2
         /\ SubSeq(Reported, Len(Reported) - 1, Len(Reported)) = <<"Success", "Fail">> )
       => delay = Min(initial * 2, cap)

\* C4 witness: Fail, Success, Fail where the first Fail had changed the interval.
ResetOnSuccessWitness ==
    /\ FailSuccessFail
    /\ 0 < initial
    /\ initial < cap

\* C5: handling a Success report puts the task to sleep for exactly
\* time_between_permits.
SteadyPacing ==
    [][Handles("Success") =>
          /\ pc' = "sleeping"
          /\ delay' = time_between_permits]_vars

\* C5 witness: the task sleeps after a Success that followed a failure and an
\* abandonment, with the backoff interval different from the pacing.
SteadyPacingWitness ==
    /\ reports = <<"Fail", "Abandon", "Success">>
    /\ pc = "sleeping"
    /\ delay = time_between_permits
    /\ 0 < initial
    /\ initial < cap
    /\ time_between_permits # initial

\* C6: when the permit is dropped the task goes straight back to recv with
\* current_retry_interval unchanged and no sleep; the delay a Fail report produces
\* depends on the reports alone, abandonments between them left out.
AbandonmentIsFree ==
    [][/\ Handles("dropped") =>
            /\ pc' = "idle"
            /\ delay' = 0
            /\ current_retry_interval' = current_retry_interval
       /\ (Handles("Fail") /\ pc' = "sleeping") =>
            delay' = Min(initial * Pow2(TrailingFails(Reported) + 1), cap)]_vars

\* C6 witness: an abandonment between two Fail reports; the second delay is the
\* one two consecutive failures produce.
AbandonmentIsFreeWitness ==
    /\ reports = <<"Fail", "Abandon", "Fail">>
    /\ pc = "sleeping"
    /\ 0 < initial
    /\ initial * 4 <= cap
    /\ delay = initial * 4

\* C7 (as stated): initial <= current_retry_interval <= cap in every state.
IntervalBoundsAlways ==
    /\ initial <= current_retry_interval
    /\ current_retry_interval <= cap

\* C7 (amended): when the handle was constructed with initial <= cap,
\* initial <= current_retry_interval <= cap in every state.
IntervalBounds ==
    initial <= cap => IntervalBoundsAlways

\* C7 witness: the clamp acted after consecutive failures.
IntervalBoundsWitness ==
    /\ initial <= cap
    /\ pc = "sleeping"
    /\ TrailingFails(Reported) >= 2
    /\ initial * Pow2(TrailingFails(Reported)) > cap
    /\ current_retry_interval = cap

\* C8 (as stated): every caller suspended in wait eventually gets its permit
\* (or gives up the wait itself).
NoStarvation ==
    \A c \in Callers :
        (callerState[c] = "waiting") ~> (callerState[c] \in {"holding", "idle"})

\* C9 (as stated): while a handle is alive the task has not ended, so the queue
\* is open.
TaskOutlivesHandles ==
    handles >= 1 => ReceiverAlive

\* The task can take no further step: the process aborted, or the task awaits an
\* outcome that no permit holder exists to send.
Halted ==
    \/ pc = "aborted"
    \/ pc = "granted" /\ outcome = "none" /\ Holders = {}

\* The task dequeues a request whose wait was cancelled in this step.
FailedDelivery ==
    /\ pc = "idle"
    /\ permit' # permit
    /\ lastGranted' = lastGranted

\* C10 (as stated): a failed delivery halts the task; it does not go on to the
\* next queued request.
CancelledWaitFailFast ==
    [][FailedDelivery => Halted']_vars

\* C11 (as stated): a step that drops a handle changes nothing but the count of
\* live senders, and every wait that was in flight at such a step gets its permit
\* (or is given up by its caller).
HandleDropKeepsWaits ==
    /\ [][handles' < handles =>
            /\ handles' = handles - 1
            /\ UNCHANGED <<config, taskVars, recv, nextRequest, callerVars, outcome>>]_vars
    /\ \A c \in Callers :
          (c \in survivors /\ callerState[c] = "waiting")
             ~> (callerState[c] \in {"holding", "idle"})

\* What does hold of a handle drop: the step changes the count of live senders
\* and nothing else; a wait that saw it stays queued for delivery while the task
\* runs, and a pending wait keeps a sender alive, so the task has not returned.
HandleDropOnlyCounts ==
    [][/\ handles' < handles =>
            /\ handles' = handles - 1
            /\ UNCHANGED <<config, taskVars, recv, nextRequest, callerVars, outcome>>
       /\ \A c \in survivors' :
            (callerState'[c] = "waiting" /\ ReceiverAlive' /\ Running')
               => InQueue(callerRequest[c])'
       /\ WaitPending' => (handles' >= 1 /\ pc' # "terminated")]_vars

\* The configurations of the end-to-end scenario: new(100ms, 1s, 50ms) has
\* 2 * initial representable and not above cap.
ScenarioConfig == Representable(initial) /\ 2 * initial <= cap

\* C12: in such a configuration, after the first permit is reported fail the task
\* sleeps 2 * initial (200ms), after the next permit is reported success it sleeps
\* time_between_permits (50ms); no permit is granted while it sleeps, the sleep
\* ends at recv only, and from recv the oldest queued request of a pending wait
\* can be and is granted.
EndToEnd ==
    [][ScenarioConfig =>
         /\ (Handles("Fail") /\ reports = <<>>) =>
               (pc' = "sleeping" /\ delay' = 2 * initial)
         /\ (Handles("Success") /\ reports = <<"Fail">>) =>
               (pc' = "sleeping" /\ delay' = time_between_permits)
         /\ pc = "sleeping" =>
               /\ Holders' = {}
               /\ lastGranted' = lastGranted
               /\ pc' \in {"sleeping", "idle"}
         /\ (pc = "idle" /\ recv # <<>> /\ Receiver(Head(recv)) # {}) =>
               /\ ENABLED Recv
               /\ permit' # permit =>
                    /\ lastGranted' = Head(recv)
                    /\ Holders' = Receiver(Head(recv))]_vars

\* C12 witness: the scenario in units of 50ms (initial 2, pacing 1, the largest
\* cap): P1 was reported fail, P2 success, and P3 has been granted.
EndToEndWitness ==
    /\ initial = 2
    /\ time_between_permits = 1
    /\ cap = MaxDuration
    /\ reports = <<"Fail", "Success">>
    /\ lastGranted = 3
    /\ Holders # {}

\* The step handles the first Fail report of the run.
FirstFail == Handles("Fail") /\ \A i \in 1..Len(reports) : reports[i] # "Fail"

\* C13 (as stated): constructed with initial > cap, the first Fail report sets the
\* interval to cap and the delay applied after it is exactly cap.
MisconfiguredClamp ==
    [][(initial > cap /\ FirstFail) =>
          /\ pc' = "sleeping"
          /\ current_retry_interval' = cap
          /\ delay' = cap]_vars

\* What does hold with initial > cap: the first Fail clamps to cap when 2 * initial
\* is representable, and panics in the doubling otherwise.
MisconfiguredClampOrPanic ==
    [][(initial > cap /\ FirstFail) =>
          IF Representable(initial)
            THEN pc' = "sleeping" /\ current_retry_interval' = cap /\ delay' = cap
            ELSE pc' = "panicked" /\ recv' = <<>>]_vars

\* C14: a request is in the queue at most once and never again once dequeued
\* (requests are dequeued in the order of their ids, permit being the last one
\* dequeued); each request belongs to at most one wait; and a wait that has
\* returned holds the permit of its own request, the one dequeued last, so there
\* is one holder at most.
OnePermitPerRequest ==
    /\ \A i, j \in 1..Len(recv) : recv[i] = recv[j] => i = j
    /\ \A i \in 1..Len(recv) : recv[i] > permit /\ recv[i] < nextRequest
    /\ \A c, d \in Callers :
         (callerRequest[c] # 0 /\ callerRequest[c] = callerRequest[d]) => c = d
    /\ \A c \in Callers :
         callerState[c] = "holding" =>
            (callerRequest[c] = permit /\ permit = lastGranted /\ pc = "granted")
    /\ Cardinality({c \in Callers : callerState[c] = "holding"}) <= 1

\* C14 witness: the second request was dequeued and its caller holds the permit
\* while another wait is pending with its request queued.
OnePermitPerRequestWitness ==
    /\ permit = 2
    /\ \E c, d \in Callers :
         /\ callerState[c] = "holding"
         /\ callerRequest[c] = 2
         /\ callerState[d] = "waiting"
         /\ InQueue(callerRequest[d])

\* C15: while the task sleeps after a report, no step grants a permit (the last
\* grant and the holders stay as they are, the queue only grows at its end) and
\* the sleep ends at recv only; a grant is made from recv only, to the oldest
\* queued request, the requests behind it keeping their order.
NoGrantDuringDelay ==
    [][/\ pc = "sleeping" =>
            /\ lastGranted' = lastGranted
            /\ permit' = permit
            /\ Holders' = {}
            /\ \/ recv' = recv
               \/ \E r \in 1..MaxRequests : recv' = Append(recv, r)
            /\ pc' \in {"sleeping", "idle"}
       /\ lastGranted' # lastGranted =>
            /\ pc = "idle"
            /\ lastGranted' = Head(recv)
            /\ recv' = Tail(recv)]_vars

\* C15 witness: the task sleeps after a report while two waits are pending with
\* their requests queued.
NoGrantDuringDelayWitness ==
    /\ pc = "sleeping"
    /\ Reported # <<>>
    /\ Cardinality(Queued) = 2

\* While a caller holds a permit the task awaits the outcome of exactly that
\* permit, and a reported outcome stays with the task until the task handles it.
Listening ==
    /\ \A c \in Holders :
         pc = "granted" /\ permit = callerRequest[c] /\ outcome = "none"
    /\ outcome \in {"Success", "Fail"} => pc = "granted"

\* C16 (as stated): a held permit always has the task listening on its outcome,
\* and every success or fail report makes the task adjust the interval and sleep.
ReportAlwaysHandled ==
    [][/\ Listening
       /\ Listening'
       /\ \A o \in {"Success", "Fail"} :
            Handles(o) => (pc' = "sleeping" /\ Last(reports') = o)]_vars

\* What does hold: the task is always listening, a Success report is always
\* followed by the reset and the sleep, a Fail report by the sleep or, when the
\* doubling is not representable, by the panic of the task.
ReportHandledOrPanic ==
    [][/\ Listening
       /\ Listening'
       /\ Handles("Success") =>
            (pc' = "sleeping" /\ current_retry_interval' = initial)
       /\ Handles("Fail") =>
            IF Representable(current_retry_interval)
              THEN pc' = "sleeping" /\ delay' = current_retry_interval'
              ELSE pc' = "panicked"]_vars

\* The task returns only from recv with the queue empty and every handle dropped,
\* and once it has returned it stays so and grants nothing.
ShutdownSafety ==
    [][/\ (pc' = "terminated" /\ pc # "terminated") =>
            (pc = "idle" /\ recv = <<>> /\ handles = 0)
       /\ pc = "terminated" =>
            (pc' \in {"terminated", "aborted"}
               /\ lastGranted' = lastGranted /\ Holders' = {})]_vars

\* C17 (as stated): once every handle is dropped the task eventually returns
\* (permits being resolved and sleeps elapsing); it returns only from recv with an
\* empty queue, and grants nothing afterwards.
EventualShutdown ==
    /\ (handles = 0) ~> (pc = "terminated")
    /\ ShutdownSafety

\* C18: a step changes current_retry_interval only if in it the task handles a
\* Success or Fail report (the other steps: wait, its cancellation, a grant, a
\* clone or drop of a handle, an abandoned permit, the end of a sleep, leave it
\* as it is), and no step changes initial, cap or time_between_permits.
IntervalFrame ==
    [][/\ current_retry_interval' # current_retry_interval =>
            \E o \in {"Success", "Fail"} : Handles(o) /\ Last(reports') = o
       /\ (Handles("dropped") \/ ~(pc = "granted" /\ outcome # "none")) =>
            current_retry_interval' = current_retry_interval
       /\ config' = config]_vars

\* C18 witness: an abandoned permit, granted after a Fail that had raised the
\* interval, was handled and the raised interval is still there.
IntervalFrameWitness ==
    /\ Len(reports) >= 2
    /\ Last(reports) = "Abandon"
    /\ reports[Len(reports) - 1] = "Fail"
    /\ current_retry_interval > initial
    /\ pc = "idle"

\* C19: constructed with initial <= cap <= MaxDuration \div 2 (the largest
\* duration being MaxDuration), in every reachable state the doubling of the
\* current interval is representable, the task has not panicked, and the Fail
\* branch yields min(2 * current, cap).
DoublingFits ==
    (initial <= cap /\ cap <= MaxDuration \div 2) =>
        /\ Representable(current_retry_interval)
        /\ pc # "panicked"
        /\ FailInterval(current_retry_interval, cap)
              = Min(2 * current_retry_interval, cap)

\* C19 witness: cap is the largest such value and the clamp has acted, the
\* interval staying at cap over a further Fail.
DoublingFitsWitness ==
    /\ 0 < initial
    /\ initial < cap
    /\ cap = MaxDuration \div 2
    /\ TrailingFails(Reported) >= 2
    /\ initial * Pow2(TrailingFails(Reported) - 1) > cap
    /\ current_retry_interval = cap

====
